---- MODULE Spec2Model ----
(***************************************************************************)
(* A model of mdbook-typst-pdf's font discovery (src/src/fonts.rs) and of   *)
(* its export and diagnostic printing (src/src/export.rs).                  *)
(*                                                                         *)
(* SpecSearch: repeated FontSearcher::search calls over a small file       *)
(*             system that changes under the program.                      *)
(* SpecFonts : one search, then concurrent FontSlot::get calls.             *)
(* SpecExport: export_pdf and the print_diagnostics call it ends with.      *)
(* SpecFiles : the position lookups of impl Files for SystemWorld, over     *)
(*             every small source text.                                     *)
(***************************************************************************)
EXTENDS Integers, Sequences, FiniteSets, TLC

(***************************************************************************)
(* Bounds of the model.                                                    *)
(***************************************************************************)
MaxSearches == 2
MaxGets == 2
MaxFsChanges == 2
MaxDiags == 2
MaxChars == 3

(***************************************************************************)
(* The file system the fonts live in.  A font file is missing (it cannot   *)
(* be opened or read), bad (readable, but typst parses no face from it) or *)
(* good.  Two directories can be given to search, and the operating system *)
(* registers two more files; the file p1 is a collection of two faces.      *)
(***************************************************************************)
Dirs == {"d1", "d2"}
SysFiles == {"p3", "p4"}
Paths == {"p1", "p2"} \cup SysFiles
FsStates == {"missing", "bad", "good"}

\* The lists of directories search is called with, and the threads that read
\* the slots.
FontPathLists == {<<>>, <<"d1", "d2">>, <<"d2", "d1">>}
Threads == {"t1", "t2"}

DirFiles(d) == IF d = "d1" THEN {"p1"} ELSE {"p2"}
NumFaces(p) == IF p = "p1" THEN 2 ELSE 1

\* Option<Font>: None, or the font parsed from the face index of a file.
None == [some |-> FALSE]
Some(v) == [some |-> TRUE, v |-> v]

\* OnceLock<Option<Font>>: the state of the Once and the stored value.
OnceNew == [once |-> "incomplete", value |-> None]

VARIABLES
  fs,         \* the state of every font file
  fsChanges,  \* how often the file system has changed
  book,       \* FontSearcher.book: the FontInfo records
  fonts,      \* FontSearcher.fonts: the FontSlots
  spc,        \* where search is: idle, dirs, faces, panicked
  font_paths, \* the argument of the running search
  dirIdx,     \* the position of search's first loop in font_paths
  db,         \* the fontdb Database of the running search: its faces
  faceIdx,    \* the position of search's second loop in db.faces()
  nsearch,    \* the number of search calls begun
  tpc,        \* each thread's position in FontSlot::get
  tslot,      \* the slot of each thread's get
  ngets,      \* the number of get calls begun
  loads,      \* history: how often each slot's closure has run
  rets,       \* history: what each slot's get calls have returned, in order
  bookStart,  \* history: the length of the book when the running search began
  skipped,    \* history: the positions in db of the faces search has skipped
  epc,        \* where export_pdf is: new, main, compile, write, print, returned
  branch,     \* the branch export_pdf took: main_failed, compile_ok, compile_err
  result,     \* what export_pdf returned: Ok or Err
  failed,     \* the process-wide failure flag that set_failed() sets
  errors,     \* print_diagnostics' argument errors
  warnings,   \* print_diagnostics' argument warnings
  diagIdx,    \* the position of print_diagnostics' loop over the diagnostics
  traceIdx,   \* the position of its loop over diagnostic.trace, 0 before it
  out,        \* the blocks term::emit has written to the stream
  printed,    \* what print_diagnostics returned: Ok or the error of term::emit
  writes,     \* how often the output file has been written
  source,     \* the text of the Source that self.lookup(id) returns
  call        \* the last call of a position lookup: its name, argument, result

fontVars == <<fs, fsChanges, book, fonts, spc, font_paths, dirIdx, db, faceIdx,
              nsearch, tpc, tslot, ngets, loads, rets, bookStart, skipped>>

exportVars == <<epc, branch, result, failed, errors, warnings, diagIdx, traceIdx,
                out, printed, writes>>

filesVars == <<source, call>>

vars == <<fontVars, exportVars, filesVars>>

(***************************************************************************)
(* Sequences.                                                              *)
(***************************************************************************)
\* Every order in which the elements of a finite set can be enumerated.
Orders(S) == {s \in [1..Cardinality(S) -> S] : \A a \in S : \E i \in DOMAIN s : s[i] = a}

RECURSIVE Flatten(_)
Flatten(ss) == IF ss = <<>> THEN <<>> ELSE Head(ss) \o Flatten(Tail(ss))

(***************************************************************************)
(* fontdb: what load_fonts_dir and load_system_fonts add to the database.   *)
(* Every face of a file that can be read is added with Source::File; the   *)
(* order of the files of one directory is the platform's.  from is history: *)
(* the position in font_paths of the directory a face came from, 0 for the *)
(* operating system's fonts.                                               *)
(***************************************************************************)
FileFaces(p, from) ==
  [i \in 1..NumFaces(p) |-> [path |-> p, index |-> i - 1, source |-> "File", from |-> from]]

Present(S) == {p \in S : fs[p] # "missing"}

ScanOrders(S, from) ==
  {Flatten([i \in DOMAIN o |-> FileFaces(o[i], from)]) : o \in Orders(Present(S))}

\* db.with_face_data(face.id, FontInfo::new): None when the file cannot be
\* opened, else Some of what FontInfo::new makes of the face.
WithFaceData(face) ==
  IF fs[face.path] = "missing" THEN None
  ELSE Some(IF fs[face.path] = "good"
            THEN Some([path |-> face.path, index |-> face.index, from |-> face.from])
            ELSE None)

\* fs::read(path).ok()? and Font::new(data, index).
LoadFont(path, index) ==
  IF fs[path] = "good" THEN Some([path |-> path, index |-> index]) ELSE None

(***************************************************************************)
(* The initial state: FontSearcher::new(), every font file in place, and    *)
(* export_pdf not yet called.                                              *)
(***************************************************************************)
InitExport ==
  /\ epc = "new"
  /\ branch = "none"
  /\ result = "none"
  /\ failed = FALSE
  /\ errors = <<>>
  /\ warnings = <<>>
  /\ diagIdx = 1
  /\ traceIdx = 0
  /\ out = <<>>
  /\ printed = "none"
  /\ writes = 0

InitFonts ==
  /\ fs = [p \in Paths |-> "good"]
  /\ fsChanges = 0
  /\ book = <<>>
  /\ fonts = <<>>
  /\ spc = "idle"
  /\ font_paths = <<>>
  /\ dirIdx = 1
  /\ db = <<>>
  /\ faceIdx = 1
  /\ nsearch = 0
  /\ tpc = [t \in Threads |-> "idle"]
  /\ tslot = [t \in Threads |-> 0]
  /\ ngets = 0
  /\ loads = <<>>
  /\ rets = <<>>
  /\ bookStart = 0
  /\ skipped = {}

\* No position lookup has been called.
NoCall == [op |-> "none"]

Init == InitFonts /\ InitExport /\ source = <<195, 169, 10, 97>> /\ call = NoCall

\* The environment: a font file is removed, replaced or restored.
FsChange ==
  /\ UNCHANGED <<exportVars, filesVars>>
  /\ fsChanges < MaxFsChanges
  /\ \E p \in Paths, s \in FsStates :
       /\ s # fs[p]
       /\ fs' = [fs EXCEPT ![p] = s]
  /\ fsChanges' = fsChanges + 1
  /\ UNCHANGED <<book, fonts, spc, font_paths, dirIdx, db, faceIdx, nsearch,
                 tpc, tslot, ngets, loads, rets, bookStart, skipped>>

(***************************************************************************)
(* FontSearcher::search.  It takes &mut self, so it starts only while no   *)
(* get is running.                                                         *)
(***************************************************************************)
SearchCall ==
  /\ UNCHANGED <<exportVars, filesVars>>
  /\ spc = "idle"
  /\ nsearch < MaxSearches
  /\ \A t \in Threads : tpc[t] = "idle"
  /\ \E fp \in FontPathLists : font_paths' = fp
  /\ db' = <<>>
  /\ dirIdx' = 1
  /\ faceIdx' = 1
  /\ spc' = "dirs"
  /\ nsearch' = nsearch + 1
  /\ bookStart' = Len(book)
  /\ skipped' = {}
  /\ UNCHANGED <<fs, fsChanges, book, fonts, tpc, tslot, ngets, loads, rets>>

\* for path in font_paths { db.load_fonts_dir(path); }
LoadFontsDir ==
  /\ UNCHANGED <<exportVars, filesVars>>
  /\ spc = "dirs"
  /\ dirIdx <= Len(font_paths)
  /\ \E faces \in ScanOrders(DirFiles(font_paths[dirIdx]), dirIdx) : db' = db \o faces
  /\ dirIdx' = dirIdx + 1
  /\ UNCHANGED <<fs, fsChanges, book, fonts, spc, font_paths, faceIdx, nsearch,
                 tpc, tslot, ngets, loads, rets, bookStart, skipped>>

\* A search that loads the system fonts ahead of the directories given.
LoadSystemFontsFirst ==
  /\ UNCHANGED <<exportVars, filesVars>>
  /\ spc = "dirs"
  /\ dirIdx > Len(font_paths)
  /\ \E faces \in ScanOrders(SysFiles, 0) : db' = faces \o db
  /\ spc' = "faces"
  /\ UNCHANGED <<fs, fsChanges, book, fonts, font_paths, dirIdx, faceIdx, nsearch,
                 tpc, tslot, ngets, loads, rets, bookStart, skipped>>

\* db.load_system_fonts();
LoadSystemFonts ==
  /\ UNCHANGED <<exportVars, filesVars>>
  /\ spc = "dirs"
  /\ dirIdx > Len(font_paths)
  /\ \E faces \in ScanOrders(SysFiles, 0) : db' = db \o faces
  /\ spc' = "faces"
  /\ UNCHANGED <<fs, fsChanges, book, fonts, font_paths, dirIdx, faceIdx, nsearch,
                 tpc, tslot, ngets, loads, rets, bookStart, skipped>>

\* A loop body that pushes the slot outside of if let Some(info).
SearchFaceSlotAlways ==
  /\ UNCHANGED <<exportVars, filesVars>>
  /\ spc = "faces"
  /\ faceIdx <= Len(db)
  /\ LET face == db[faceIdx]
         got == WithFaceData(face)
     IN IF ~got.some
        THEN /\ spc' = "panicked"
             /\ UNCHANGED <<book, fonts, loads, rets, faceIdx, skipped>>
        ELSE /\ book' = IF got.v.some THEN Append(book, got.v.v) ELSE book
             /\ fonts' = Append(fonts, [path |-> face.path, index |-> face.index,
                                        from |-> face.from, font |-> OnceNew])
             /\ loads' = Append(loads, 0)
             /\ rets' = Append(rets, <<>>)
             /\ faceIdx' = faceIdx + 1
             /\ skipped' = IF got.v.some THEN skipped ELSE skipped \cup {faceIdx}
             /\ UNCHANGED spc
  /\ UNCHANGED <<fs, fsChanges, font_paths, dirIdx, db, nsearch, tpc, tslot, ngets,
                 bookStart>>

\* One pass of the body of for face in db.faces().
SearchFace ==
  /\ UNCHANGED <<exportVars, filesVars>>
  /\ spc = "faces"
  /\ faceIdx <= Len(db)
  /\ LET face == db[faceIdx]
         got == WithFaceData(face)
     IN IF face.source = "Binary"
        THEN \* Source::Binary(_) => continue
             /\ faceIdx' = faceIdx + 1
             /\ skipped' = skipped \cup {faceIdx}
             /\ UNCHANGED <<book, fonts, loads, rets, spc>>
        ELSE IF ~got.some
        THEN \* .expect("database must contain this font") panics
             /\ spc' = "panicked"
             /\ UNCHANGED <<book, fonts, loads, rets, faceIdx, skipped>>
        ELSE IF got.v.some
        THEN \* if let Some(info) = info: the two pushes
             /\ book' = Append(book, got.v.v)
             /\ fonts' = Append(fonts, [path |-> face.path, index |-> face.index,
                                        from |-> face.from, font |-> OnceNew])
             /\ loads' = Append(loads, 0)
             /\ rets' = Append(rets, <<>>)
             /\ faceIdx' = faceIdx + 1
             /\ UNCHANGED <<spc, skipped>>
        ELSE /\ faceIdx' = faceIdx + 1
             /\ skipped' = skipped \cup {faceIdx}
             /\ UNCHANGED <<book, fonts, loads, rets, spc>>
  /\ UNCHANGED <<fs, fsChanges, font_paths, dirIdx, db, nsearch, tpc, tslot, ngets,
                 bookStart>>

\* The loop over db.faces() ends and search returns.
SearchReturn ==
  /\ UNCHANGED <<exportVars, filesVars>>
  /\ spc = "faces"
  /\ faceIdx > Len(db)
  /\ spc' = "idle"
  /\ font_paths' = <<>>
  /\ db' = <<>>
  /\ dirIdx' = 1
  /\ faceIdx' = 1
  /\ UNCHANGED <<fs, fsChanges, book, fonts, nsearch, tpc, tslot, ngets, loads, rets,
                 bookStart, skipped>>

(***************************************************************************)
(* FontSlot::get: self.font.get_or_init(|| ...).clone().                   *)
(***************************************************************************)
GetCall(t) ==
  /\ UNCHANGED <<exportVars, filesVars>>
  /\ tpc[t] = "idle"
  /\ spc = "idle"
  /\ ngets < MaxGets
  /\ \E i \in 1..Len(fonts) : tslot' = [tslot EXCEPT ![t] = i]
  /\ tpc' = [tpc EXCEPT ![t] = "get_or_init"]
  /\ ngets' = ngets + 1
  /\ UNCHANGED <<fs, fsChanges, book, fonts, spc, font_paths, dirIdx, db, faceIdx,
                 nsearch, loads, rets, bookStart, skipped>>

\* A lazy cell without mutual exclusion: whoever finds no value runs the closure.
GetOrInitRacy(t) ==
  /\ UNCHANGED <<exportVars, filesVars>>
  /\ tpc[t] = "get_or_init"
  /\ LET cell == fonts[tslot[t]].font
     IN \/ /\ cell.once = "complete"
           /\ rets' = [rets EXCEPT ![tslot[t]] = Append(@, cell.value)]
           /\ tpc' = [tpc EXCEPT ![t] = "idle"]
           /\ tslot' = [tslot EXCEPT ![t] = 0]
           /\ UNCHANGED fonts
        \/ /\ cell.once # "complete"
           /\ fonts' = [fonts EXCEPT ![tslot[t]].font.once = "running"]
           /\ tpc' = [tpc EXCEPT ![t] = "closure"]
           /\ UNCHANGED <<rets, tslot>>
  /\ UNCHANGED <<fs, fsChanges, book, spc, font_paths, dirIdx, db, faceIdx,
                 nsearch, ngets, loads, bookStart, skipped>>

\* self.font.get_or_init(..).clone(): an initialized cell is read, and get
\* returns a clone of its value; the thread that finds the Once incomplete runs
\* the closure; one that finds it running waits.
GetOrInit(t) ==
  /\ UNCHANGED <<exportVars, filesVars>>
  /\ tpc[t] = "get_or_init"
  /\ LET cell == fonts[tslot[t]].font
     IN \/ /\ cell.once = "complete"
           /\ rets' = [rets EXCEPT ![tslot[t]] = Append(@, cell.value)]
           /\ tpc' = [tpc EXCEPT ![t] = "idle"]
           /\ tslot' = [tslot EXCEPT ![t] = 0]
           /\ UNCHANGED fonts
        \/ /\ cell.once = "incomplete"
           /\ fonts' = [fonts EXCEPT ![tslot[t]].font.once = "running"]
           /\ tpc' = [tpc EXCEPT ![t] = "closure"]
           /\ UNCHANGED <<rets, tslot>>
  /\ UNCHANGED <<fs, fsChanges, book, spc, font_paths, dirIdx, db, faceIdx,
                 nsearch, ngets, loads, bookStart, skipped>>

\* A cell that keeps only a font that loaded, and tries again after a failure.
InitClosureRetry(t) ==
  /\ UNCHANGED <<exportVars, filesVars>>
  /\ tpc[t] = "closure"
  /\ LET value == LoadFont(fonts[tslot[t]].path, fonts[tslot[t]].index)
     IN /\ fonts' = [fonts EXCEPT ![tslot[t]].font =
                      IF value.some THEN [once |-> "complete", value |-> value] ELSE OnceNew]
        /\ rets' = [rets EXCEPT ![tslot[t]] = Append(@, value)]
  /\ loads' = [loads EXCEPT ![tslot[t]] = @ + 1]
  /\ tpc' = [tpc EXCEPT ![t] = "idle"]
  /\ tslot' = [tslot EXCEPT ![t] = 0]
  /\ UNCHANGED <<fs, fsChanges, book, spc, font_paths, dirIdx, db, faceIdx,
                 nsearch, ngets, bookStart, skipped>>

\* A cache kept per file: the closure's value completes the cell of every slot
\* of the file.
InitClosurePerFile(t) ==
  /\ UNCHANGED <<exportVars, filesVars>>
  /\ tpc[t] = "closure"
  /\ LET value == LoadFont(fonts[tslot[t]].path, fonts[tslot[t]].index)
     IN /\ fonts' = [j \in DOMAIN fonts |->
                      IF fonts[j].path = fonts[tslot[t]].path
                      THEN [fonts[j] EXCEPT !.font = [once |-> "complete", value |-> value]]
                      ELSE fonts[j]]
        /\ rets' = [rets EXCEPT ![tslot[t]] = Append(@, value)]
  /\ loads' = [loads EXCEPT ![tslot[t]] = @ + 1]
  /\ tpc' = [tpc EXCEPT ![t] = "idle"]
  /\ tslot' = [tslot EXCEPT ![t] = 0]
  /\ UNCHANGED <<fs, fsChanges, book, spc, font_paths, dirIdx, db, faceIdx,
                 nsearch, ngets, bookStart, skipped>>

\* The closure runs: fs::read(&self.path).ok()?.into(); Font::new(data, self.index);
\* get_or_init stores its value and completes the Once, and get returns a clone
\* of the value.
InitClosure(t) ==
  /\ UNCHANGED <<exportVars, filesVars>>
  /\ tpc[t] = "closure"
  /\ LET value == LoadFont(fonts[tslot[t]].path, fonts[tslot[t]].index)
     IN /\ fonts' = [fonts EXCEPT ![tslot[t]].font = [once |-> "complete", value |-> value]]
        /\ rets' = [rets EXCEPT ![tslot[t]] = Append(@, value)]
  /\ loads' = [loads EXCEPT ![tslot[t]] = @ + 1]
  /\ tpc' = [tpc EXCEPT ![t] = "idle"]
  /\ tslot' = [tslot EXCEPT ![t] = 0]
  /\ UNCHANGED <<fs, fsChanges, book, spc, font_paths, dirIdx, db, faceIdx,
                 nsearch, ngets, bookStart, skipped>>

(***************************************************************************)
(* Claims about FontSlot and FontSearcher.                                  *)
(***************************************************************************)
Slots == 1..Len(fonts)

\* C1: the closure of a slot (fs::read and Font::new) runs at most once,
\* exactly once when a get of the slot has returned, and every get of the
\* slot returns the one stored outcome, whichever thread ran the load.
C1_LoadOnce ==
  \A i \in Slots :
    /\ loads[i] <= 1
    /\ rets[i] # <<>> => loads[i] = 1 /\ fonts[i].font.once = "complete"
    /\ \A k \in DOMAIN rets[i] : rets[i][k] = fonts[i].font.value

\* Two gets of one slot have returned, after one load.
C1_Witness ==
  \E i \in Slots : Len(rets[i]) >= 2 /\ loads[i] = 1

\* C2: the outcome of the first load is kept for good: a completed cell never
\* changes, a slot is never read a second time, and a get that follows a
\* failed load returns None whatever the file has become.
C2_FailureCached ==
  [][\A i \in Slots :
       /\ fonts[i].font.once = "complete" => fonts'[i].font = fonts[i].font
       /\ loads[i] >= 1 => loads'[i] = loads[i]
       /\ (rets'[i] # rets[i] /\ loads[i] >= 1 /\ ~fonts[i].font.value.some)
            => ~rets'[i][Len(rets'[i])].some]_vars

\* A get is about to return the None of an earlier get's failed load, from a
\* slot whose file is good by now.
C2_Witness ==
  \E i \in Slots, t \in Threads :
    /\ fonts[i].font = [once |-> "complete", value |-> None]
    /\ rets[i] = <<None>>
    /\ fs[fonts[i].path] = "good"
    /\ tpc[t] = "get_or_init" /\ tslot[t] = i

\* C3: after the first search of a searcher, in book and in fonts every entry
\* of a directory of font_paths comes before every entry of the operating
\* system's fonts, and the entries of an earlier directory before those of a
\* later one.
InTierOrder(entries) ==
  \A i, j \in DOMAIN entries :
    /\ (entries[i].from > 0 /\ entries[j].from = 0) => i < j
    /\ (entries[i].from > 0 /\ entries[i].from < entries[j].from) => i < j

C3_ExplicitFirst ==
  nsearch = 1 => InTierOrder(book) /\ InTierOrder(fonts)

\* A first search has returned entries of two directories and of two system
\* fonts, the system fonts enumerated p4 first.
C3_Witness ==
  /\ nsearch = 1
  /\ spc = "idle"
  /\ {book[i].from : i \in DOMAIN book} = {0, 1, 2}
  /\ \E i, j \in DOMAIN book : i < j /\ book[i].path = "p4" /\ book[j].path = "p3"

\* C4: whenever the searcher can be observed, book and fonts have the same
\* length and fonts[i] holds the path and the index of the face of book[i].
C4_Aligned ==
  spc \in {"idle", "panicked"} =>
    /\ Len(book) = Len(fonts)
    /\ \A i \in DOMAIN book :
         book[i].path = fonts[i].path /\ book[i].index = fonts[i].index

\* A second search has returned, having skipped a face and added others.
C4_Witness ==
  /\ nsearch = 2
  /\ spc = "idle"
  /\ skipped # {}
  /\ Len(book) > bookStart
  /\ bookStart > 0

\* C5: a face that is skipped adds nothing, search goes on and completes, and
\* every other face is added once: search never panics, and the entries it has
\* added are the faces it has passed and not skipped, in their order.
RECURSIVE Kept(_, _)
Kept(n, skip) ==
  IF n = 0 THEN <<>>
  ELSE IF n \in skip THEN Kept(n - 1, skip)
  ELSE Append(Kept(n - 1, skip), [path |-> db[n].path, index |-> db[n].index])

C5_SkipAndContinue ==
  /\ spc # "panicked"
  /\ spc = "faces" =>
       /\ Len(book) = bookStart + Len(Kept(faceIdx - 1, skipped))
       /\ \A k \in 1..(Len(book) - bookStart) :
            Kept(faceIdx - 1, skipped)[k] =
              [path |-> fonts[bookStart + k].path, index |-> fonts[bookStart + k].index]


\* The searcher is used as section 5 of the spec has it: one scan, which runs
\* to completion, and then reads of the slots.
SearchOnce ==
  /\ nsearch = 0
  /\ SearchCall

NextSearch ==
  \/ FsChange
  \/ SearchCall
  \/ LoadFontsDir
  \/ LoadSystemFonts
  \/ SearchFace
  \/ SearchReturn

NextFonts ==
  \/ FsChange
  \/ SearchOnce
  \/ LoadFontsDir
  \/ LoadSystemFonts
  \/ SearchFace
  \/ SearchReturn
  \/ \E t \in Threads : GetCall(t)
  \/ \E t \in Threads : GetOrInit(t)
  \/ \E t \in Threads : InitClosure(t)

\* Repeated searches of one searcher.
SpecSearch == Init /\ [][NextSearch]_vars

\* One search, then concurrent gets of the slots it found.
SpecFonts == Init /\ [][NextFonts]_vars

(***************************************************************************)
(* The source the diagnostics point into.  A text is a sequence of UTF-8   *)
(* bytes; MainText is "e-acute, newline, a": the e-acute takes two bytes.   *)
(***************************************************************************)
MainText == <<195, 169, 10, 97>>

LenBytes(text) == Len(text)

\* str::is_char_boundary: the start, the end, or no continuation byte.
IsCharBoundary(text, i) ==
  \/ i = 0
  \/ i = Len(text)
  \/ i < Len(text) /\ ~(text[i + 1] \in 128..191)

\* The offsets at which a line starts: 0, and the offset after each newline
\* (a line feed, or a carriage return that no line feed follows).
LineStarts(text) ==
  {0} \cup {q \in 1..Len(text) :
              \/ text[q] = 10
              \/ text[q] = 13 /\ ~(q < Len(text) /\ text[q + 1] = 10)}

LenLines(text) == Cardinality(LineStarts(text))

\* A byte_to_line that takes the end of the text to be out of range.
ByteToLineExclusive(text, i) ==
  IF i < Len(text)
  THEN Some(Cardinality({q \in LineStarts(text) : q <= i}) - 1)
  ELSE None

\* Source::byte_to_line: the last line that starts at or before the offset.
ByteToLine(text, i) ==
  IF i <= Len(text)
  THEN Some(Cardinality({q \in LineStarts(text) : q <= i}) - 1)
  ELSE None

\* Source::line_to_byte: the start of the line with that index.
LineToByte(text, n) ==
  IF n < LenLines(text)
  THEN Some(CHOOSE q \in LineStarts(text) :
              Cardinality({r \in LineStarts(text) : r < q}) = n)
  ELSE None

\* A line_to_range that ends a line before its newline.
LineToRangeToNewline(text, n) ==
  IF ~LineToByte(text, n).some THEN None
  ELSE Some(<<LineToByte(text, n).v,
              IF LineToByte(text, n + 1).some THEN LineToByte(text, n + 1).v - 1
              ELSE Len(text)>>)

\* Source::line_to_range: from the line's start to the next line's, or the end.
LineToRange(text, n) ==
  IF ~LineToByte(text, n).some THEN None
  ELSE Some(<<LineToByte(text, n).v,
              IF LineToByte(text, n + 1).some THEN LineToByte(text, n + 1).v
              ELSE Len(text)>>)

\* A byte_to_column that counts the bytes of the line before the offset.
ByteToColumnBytes(text, i) ==
  IF ~ByteToLine(text, i).some THEN None
  ELSE LET start == LineToByte(text, ByteToLine(text, i).v).v
       IN IF ~IsCharBoundary(text, i) THEN None
          ELSE Some(i - start)

\* Source::byte_to_column: the characters of the line before the offset, when
\* the offset is in range and on a character boundary.
ByteToColumn(text, i) ==
  IF ~ByteToLine(text, i).some THEN None
  ELSE LET start == LineToByte(text, ByteToLine(text, i).v).v
       IN IF ~IsCharBoundary(text, i) THEN None
          ELSE Some(Cardinality({q \in (start + 1)..i : ~(text[q] \in 128..191)}))

\* Result<T, CodespanError>
Ok(v) == [ok |-> TRUE, v |-> v]
Err(e) == [ok |-> FALSE, err |-> e]

\* Files::line_index for SystemWorld
line_index(text, given) ==
  IF ByteToLine(text, given).some THEN Ok(ByteToLine(text, given).v)
  ELSE Err([kind |-> "IndexTooLarge", given |-> given, max |-> LenBytes(text)])

\* Files::line_range for SystemWorld
line_range(text, given) ==
  IF LineToRange(text, given).some THEN Ok(LineToRange(text, given).v)
  ELSE Err([kind |-> "LineTooLarge", given |-> given, max |-> LenLines(text)])

\* A column_number that reports every failure as an index too large.
column_numberIndexOnly(text, given) ==
  IF ByteToColumn(text, given).some THEN Ok(ByteToColumn(text, given).v)
  ELSE Err([kind |-> "IndexTooLarge", given |-> given, max |-> LenBytes(text)])

\* Files::column_number for SystemWorld
column_number(text, given) ==
  IF ByteToColumn(text, given).some THEN Ok(ByteToColumn(text, given).v)
  ELSE IF given <= LenBytes(text)
       THEN Err([kind |-> "InvalidCharBoundary", given |-> given])
       ELSE Err([kind |-> "IndexTooLarge", given |-> given, max |-> LenBytes(text)])

(***************************************************************************)
(* The lookups called on every small source.  A source text is a String:   *)
(* a sequence of whole characters, here of "a", line feed, carriage return *)
(* and the two-byte e-acute; CafeText is "cafe" with the e-acute.           *)
(***************************************************************************)
Chars == {<<97>>, <<10>>, <<13>>, <<195, 169>>}
CafeText == <<99, 97, 102, 195, 169>>

Texts == {Flatten(cs) : cs \in UNION {[1..n -> Chars] : n \in 0..MaxChars}} \cup {CafeText}

\* The offsets and line indices the lookups are called with: every one in
\* range of some text, and some behind the end of every text.
Givens == 0..(2 * MaxChars + 1)

InitFiles == InitFonts /\ InitExport /\ source \in Texts /\ call = NoCall

LineIndexCall ==
  /\ \E given \in Givens :
       call' = [op |-> "line_index", given |-> given, res |-> line_index(source, given)]
  /\ UNCHANGED <<source, fontVars, exportVars>>

LineRangeCall ==
  /\ \E given \in Givens :
       call' = [op |-> "line_range", given |-> given, res |-> line_range(source, given)]
  /\ UNCHANGED <<source, fontVars, exportVars>>

ColumnNumberCall ==
  /\ \E given \in Givens :
       call' = [op |-> "column_number", given |-> given, res |-> column_number(source, given)]
  /\ UNCHANGED <<source, fontVars, exportVars>>

NextFiles ==
  \/ LineIndexCall
  \/ LineRangeCall
  \/ ColumnNumberCall

SpecFiles == InitFiles /\ [][NextFiles]_vars

(***************************************************************************)
(* Spans and diagnostics.  A span is detached, or names a file in which    *)
(* the world finds no range for it, or resolves to a byte range of the     *)
(* main file: a good one, one that ends behind the text, one that starts   *)
(* inside a character.                                                     *)
(***************************************************************************)
Detached == [kind |-> "detached"]
Unknown == [kind |-> "unknown"]
InRange(lo, hi) == [kind |-> "range", lo |-> lo, hi |-> hi]
GoodSpan == InRange(0, 2)
TooLargeSpan == InRange(3, 5)
MidCharSpan == InRange(1, 2)

MainSpans == {Detached, Unknown, GoodSpan, TooLargeSpan}
HintLists == {<<>>, <<"h1", "h2">>}
TraceLists == {<<>>, <<GoodSpan, Detached>>, <<MidCharSpan>>}
Shapes == [span : MainSpans, hints : HintLists, trace : TraceLists]

ShapeLists(lo, hi) == UNION {[1..n -> Shapes] : n \in lo..hi}

\* The SourceDiagnostics of a list: the i-th has the message <<severity, i>>,
\* and its k-th trace point the message <<severity, i, k>>.
Diagnostics(severity, shapes) ==
  [i \in DOMAIN shapes |->
     [severity |-> severity,
      message |-> <<severity, i>>,
      span |-> shapes[i].span,
      hints |-> shapes[i].hints,
      trace |-> [k \in DOMAIN shapes[i].trace |->
                   [v |-> <<severity, i, k>>, span |-> shapes[i].trace[k]]]]]

\* What world.source(world.main()).at(Span::detached()) gives for a main file
\* that cannot be read: one error at the detached span.
ReadErrors == {Diagnostics("error", <<[span |-> Detached, hints |-> h, trace |-> <<>>]>>) :
                 h \in HintLists}

\* set_failed(): the value of the flag from then on.
set_failed == TRUE

\* A label that stands in for a span without a location.
labelAlways(span) ==
  IF span.kind = "range" THEN Some([range |-> <<span.lo, span.hi>>])
  ELSE Some([range |-> <<0, 0>>])

\* fn label: Some(Label::primary(span.id()?, world.range(span)?))
label(span) ==
  IF span.kind = "detached" THEN None
  ELSE IF span.kind = "unknown" THEN None
  ELSE Some([range |-> <<span.lo, span.hi>>])

\* label(world, span).into_iter().collect()
Labels(span) == IF label(span).some THEN <<label(span).v>> ELSE <<>>

\* The main block of a diagnostic: Diagnostic::error() or ::warning() with the
\* message, the notes "hint: {e}" and the labels.
MainBlock(diagnostic) ==
  [severity |-> diagnostic.severity,
   message |-> diagnostic.message,
   notes |-> [k \in DOMAIN diagnostic.hints |->
                [prefix |-> "hint: ", text |-> diagnostic.hints[k]]],
   labels |-> Labels(diagnostic.span)]

\* The block of a trace point: Diagnostic::help() with the message and labels.
HelpBlock(point) ==
  [severity |-> "help", message |-> point.v, notes |-> <<>>, labels |-> Labels(point.span)]

\* The lookups term::emit makes for a label before it writes anything: the
\* line and the line range of the start and of the end, and the column of the
\* start.  The first error ends them.
LabelLookups(lbl) ==
  LET lo == lbl.range[1]
      hi == lbl.range[2]
  IN IF ~line_index(MainText, lo).ok THEN line_index(MainText, lo)
     ELSE IF ~line_range(MainText, line_index(MainText, lo).v).ok
     THEN line_range(MainText, line_index(MainText, lo).v)
     ELSE IF ~line_index(MainText, hi).ok THEN line_index(MainText, hi)
     ELSE IF ~line_range(MainText, line_index(MainText, hi).v).ok
     THEN line_range(MainText, line_index(MainText, hi).v)
     ELSE IF ~column_number(MainText, lo).ok THEN column_number(MainText, lo)
     ELSE Ok(TRUE)

EmitLookups(block) ==
  IF block.labels = <<>> THEN Ok(TRUE) ELSE LabelLookups(block.labels[1])

\* A chain that takes the errors first.
ErrorsFirst == errors \o warnings

\* warnings.iter().chain(errors)
Queue == warnings \o errors

(***************************************************************************)
(* print_diagnostics: one term::emit per step.                             *)
(***************************************************************************)
\* term::emit(..)? fails: print_diagnostics returns the error, and export_pdf
\* returns "failed to print diagnostics".
PrintFails(kind) ==
  /\ printed' = kind
  /\ result' = "Err"
  /\ epc' = "returned"
  /\ UNCHANGED <<out, diagIdx, traceIdx>>

\* term::emit(&mut w, &config, world, &diag)?: a failed lookup is returned
\* before anything is written; the stream takes the block or fails.
Emit(block, next) ==
  IF ~EmitLookups(block).ok
  THEN PrintFails(EmitLookups(block).err.kind)
  ELSE \/ /\ out' = Append(out, block)
          /\ diagIdx' = next[1]
          /\ traceIdx' = next[2]
          /\ UNCHANGED <<epc, result, printed>>
       \/ PrintFails("Io")

\* Where the loops are after the main block of the d-th diagnostic.
AfterMain(d) == IF Queue[d].trace # <<>> THEN <<d, 1>> ELSE <<d + 1, 0>>

\* A trace loop that ends after its first point.
AfterTraceOnce(d, k) == <<d + 1, 0>>

\* Where the loops are after the k-th trace point of the d-th diagnostic.
AfterTrace(d, k) == IF k < Len(Queue[d].trace) THEN <<d, k + 1>> ELSE <<d + 1, 0>>

\* The body of for diagnostic in warnings.iter().chain(errors), to its emit.
EmitMain ==
  /\ epc = "print"
  /\ diagIdx <= Len(Queue)
  /\ traceIdx = 0
  /\ Emit(MainBlock(Queue[diagIdx]), AfterMain(diagIdx))
  /\ UNCHANGED <<branch, failed, errors, warnings, writes>>
  /\ UNCHANGED <<fontVars, filesVars>>

\* The body of for point in &diagnostic.trace.
EmitTrace ==
  /\ epc = "print"
  /\ diagIdx <= Len(Queue)
  /\ traceIdx > 0
  /\ Emit(HelpBlock(Queue[diagIdx].trace[traceIdx]), AfterTrace(diagIdx, traceIdx))
  /\ UNCHANGED <<branch, failed, errors, warnings, writes>>
  /\ UNCHANGED <<fontVars, filesVars>>

\* The loop ends: print_diagnostics returns Ok(()), and export_pdf after it.
PrintDone ==
  /\ epc = "print"
  /\ diagIdx > Len(Queue)
  /\ printed' = "Ok"
  /\ result' = "Ok"
  /\ epc' = "returned"
  /\ UNCHANGED <<branch, failed, errors, warnings, diagIdx, traceIdx, out, writes>>
  /\ UNCHANGED <<fontVars, filesVars>>

(***************************************************************************)
(* export_pdf.                                                             *)
(***************************************************************************)
\* let world = SystemWorld::new(&args)?;
ExportNew ==
  /\ epc = "new"
  /\ \/ /\ epc' = "main"
        /\ UNCHANGED result
     \/ /\ epc' = "returned"
        /\ result' = "Err"
  /\ UNCHANGED <<branch, failed, errors, warnings, diagIdx, traceIdx, out, printed, writes>>
  /\ UNCHANGED <<fontVars, filesVars>>

\* A check of the main file that returns the read error as a hard error.
CheckMainHardError ==
  /\ epc = "main"
  /\ \/ /\ failed' = set_failed
        /\ \E es \in ReadErrors : errors' = es
        /\ warnings' = <<>>
        /\ branch' = "main_failed"
        /\ result' = "Err"
        /\ epc' = "returned"
     \/ /\ epc' = "compile"
        /\ UNCHANGED <<failed, errors, warnings, branch, result>>
  /\ UNCHANGED <<diagIdx, traceIdx, out, printed, writes>>
  /\ UNCHANGED <<fontVars, filesVars>>

\* if let Err(errors) = world.source(world.main()).at(Span::detached())
CheckMain ==
  /\ epc = "main"
  /\ \/ /\ failed' = set_failed
        /\ \E es \in ReadErrors : errors' = es
        /\ warnings' = <<>>
        /\ branch' = "main_failed"
        /\ epc' = "print"
     \/ /\ epc' = "compile"
        /\ UNCHANGED <<failed, errors, warnings, branch>>
  /\ UNCHANGED <<result, diagIdx, traceIdx, out, printed, writes>>
  /\ UNCHANGED <<fontVars, filesVars>>

\* A compile-error branch that leaves the flag alone.
CompileNoFlag ==
  /\ epc = "compile"
  /\ \E ws \in ShapeLists(0, MaxDiags - 1) :
       \E es \in ShapeLists(1, MaxDiags - Len(ws)) :
         /\ warnings' = Diagnostics("warning", ws)
         /\ errors' = Diagnostics("error", es)
  /\ branch' = "compile_err"
  /\ epc' = "print"
  /\ UNCHANGED <<failed, result, diagIdx, traceIdx, out, printed, writes>>
  /\ UNCHANGED <<fontVars, filesVars>>

\* A compile-error branch that goes on to write the output.
CompileErrWrites ==
  /\ epc = "compile"
  /\ \/ /\ \E ws \in ShapeLists(0, MaxDiags) : warnings' = Diagnostics("warning", ws)
        /\ branch' = "compile_ok"
        /\ epc' = "write"
        /\ UNCHANGED <<failed, errors>>
     \/ /\ \E ws \in ShapeLists(0, MaxDiags - 1) :
             \E es \in ShapeLists(1, MaxDiags - Len(ws)) :
               /\ warnings' = Diagnostics("warning", ws)
               /\ errors' = Diagnostics("error", es)
        /\ failed' = set_failed
        /\ branch' = "compile_err"
        /\ epc' = "write"
  /\ UNCHANGED <<result, diagIdx, traceIdx, out, printed, writes>>
  /\ UNCHANGED <<fontVars, filesVars>>

\* An Ok branch that sets the failure flag when the compilation has warned.
CompileWarningsFail ==
  /\ epc = "compile"
  /\ \/ /\ \E ws \in ShapeLists(0, MaxDiags) :
             /\ warnings' = Diagnostics("warning", ws)
             /\ failed' = IF ws # <<>> THEN set_failed ELSE failed
        /\ branch' = "compile_ok"
        /\ epc' = "write"
        /\ UNCHANGED errors
     \/ /\ \E ws \in ShapeLists(0, MaxDiags - 1) :
             \E es \in ShapeLists(1, MaxDiags - Len(ws)) :
               /\ warnings' = Diagnostics("warning", ws)
               /\ errors' = Diagnostics("error", es)
        /\ failed' = set_failed
        /\ branch' = "compile_err"
        /\ epc' = "print"
  /\ UNCHANGED <<result, diagIdx, traceIdx, out, printed, writes>>
  /\ UNCHANGED <<fontVars, filesVars>>

\* typst::compile(&world, &mut tracer), tracer.warnings() and match result
Compile ==
  /\ epc = "compile"
  /\ \/ /\ \E ws \in ShapeLists(0, MaxDiags) : warnings' = Diagnostics("warning", ws)
        /\ branch' = "compile_ok"
        /\ epc' = "write"
        /\ UNCHANGED <<failed, errors>>
     \/ /\ \E ws \in ShapeLists(0, MaxDiags - 1) :
             \E es \in ShapeLists(1, MaxDiags - Len(ws)) :
               /\ warnings' = Diagnostics("warning", ws)
               /\ errors' = Diagnostics("error", es)
        /\ failed' = set_failed
        /\ branch' = "compile_err"
        /\ epc' = "print"
  /\ UNCHANGED <<result, diagIdx, traceIdx, out, printed, writes>>
  /\ UNCHANGED <<fontVars, filesVars>>

\* An Ok branch that returns once the output is written, printing nothing.
WriteOutputReturns ==
  /\ epc = "write"
  /\ \/ /\ writes' = writes + 1
        /\ result' = "Ok"
        /\ epc' = "returned"
     \/ /\ result' = "Err"
        /\ epc' = "returned"
        /\ UNCHANGED writes
  /\ UNCHANGED <<branch, failed, errors, warnings, diagIdx, traceIdx, out, printed>>
  /\ UNCHANGED <<fontVars, filesVars>>

\* typst_pdf::pdf(..) and fs::write(output, buffer).map_err(..)?
WriteOutput ==
  /\ epc = "write"
  /\ \/ /\ writes' = writes + 1
        /\ epc' = "print"
        /\ UNCHANGED result
     \/ /\ result' = "Err"
        /\ epc' = "returned"
        /\ UNCHANGED writes
  /\ UNCHANGED <<branch, failed, errors, warnings, diagIdx, traceIdx, out, printed>>
  /\ UNCHANGED <<fontVars, filesVars>>

NextExport ==
  \/ ExportNew
  \/ CheckMain
  \/ Compile
  \/ WriteOutput
  \/ EmitMain
  \/ EmitTrace
  \/ PrintDone

SpecExport == Init /\ [][NextExport]_vars

(***************************************************************************)
(* Claims about print_diagnostics and export_pdf.                           *)
(***************************************************************************)
Returned == printed # "none"
LookupErrors == {"IndexTooLarge", "LineTooLarge", "InvalidCharBoundary"}

IsPrefix(a, b) == Len(a) <= Len(b) /\ \A i \in DOMAIN a : a[i] = b[i]

\* The messages of the main (not help) blocks written, in order.
MainBlocks == SelectSeq(out, LAMBDA b : b.severity # "help")
MainMessages == [i \in DOMAIN MainBlocks |-> MainBlocks[i].message]

\* The messages of the diagnostics given: the warnings, then the errors.
GivenMessages ==
  [i \in 1..(Len(warnings) + Len(errors)) |->
     IF i <= Len(warnings) THEN warnings[i].message ELSE errors[i - Len(warnings)].message]

\* The diagnostics given, in that order, and the place in the output of the
\* main block of the d-th: behind the blocks of those before it.
Given(d) == IF d <= Len(warnings) THEN warnings[d] ELSE errors[d - Len(warnings)]
NumGiven == Len(warnings) + Len(errors)

RECURSIVE BlocksBefore(_)
BlocksBefore(d) == IF d <= 1 THEN 0 ELSE BlocksBefore(d - 1) + 1 + Len(Given(d - 1).trace)

C7_LookupFailureDropsLabelOnly ==
  /\ ~(printed \in LookupErrors)
  /\ printed = "Ok" => Len(out) = BlocksBefore(NumGiven + 1)

\* The notes a diagnostic's hints are rendered as.
HintNotes(d) == [k \in DOMAIN Given(d).hints |-> [prefix |-> "hint: ", text |-> Given(d).hints[k]]]
NoLocation(d) == Given(d).span.kind \in {"detached", "unknown"}

\* The main block of the d-th diagnostic is written, and as it should be: its
\* message, its hints in order, no label without a location, else its range.
WrittenRight(d) ==
  /\ BlocksBefore(d) + 1 <= Len(out)
  /\ LET b == out[BlocksBefore(d) + 1]
     IN /\ b.message = Given(d).message
        /\ b.severity = Given(d).severity
        /\ b.notes = HintNotes(d)
        /\ b.labels = IF NoLocation(d) THEN <<>>
                      ELSE <<[range |-> <<Given(d).span.lo, Given(d).span.hi>>]>>

GivenBlocks ==
  Flatten([d \in 1..NumGiven |->
             <<[message |-> Given(d).message, help |-> FALSE]>> \o
             [k \in DOMAIN Given(d).trace |-> [message |-> Given(d).trace[k].v, help |-> TRUE]]])

WrittenBlocks ==
  [i \in DOMAIN out |-> [message |-> out[i].message, help |-> out[i].severity = "help"]]

C10_FailureFlag ==
  /\ []((\E i \in DOMAIN out : out[i].severity = "error") => failed)
  /\ []((epc \in {"print", "returned"} /\ errors # <<>>) => failed)
  /\ [](branch = "main_failed" => failed)
  /\ [][failed => failed']_vars

\* Printing has failed after an error block was written.
C10_Witness ==
  /\ printed \in LookupErrors \cup {"Io"}
  /\ \E i \in DOMAIN out : out[i].severity = "error"
  /\ branch = "compile_err"
  /\ failed

\* C11: when the main file cannot be read, export_pdf has set the failure
\* flag, hands the read errors and no warnings to print_diagnostics, writes
\* only error blocks, and returns Ok unless print_diagnostics itself failed.
C11_MainFileFailure ==
  branch = "main_failed" =>
    /\ failed
    /\ errors \in ReadErrors
    /\ warnings = <<>>
    /\ epc \in {"print", "returned"}
    /\ \A i \in DOMAIN out : out[i].severity = "error"
    /\ epc = "returned" =>
         /\ printed # "none"
         /\ result = "Ok" <=> printed = "Ok"

\* export_pdf has returned Ok after the read error of the main file was printed.
C11_Witness ==
  /\ branch = "main_failed"
  /\ epc = "returned"
  /\ result = "Ok"
  /\ failed
  /\ Len(out) = 1
  /\ out[1].severity = "error"

(***************************************************************************)
(* Claims about the position lookups.                                      *)
(***************************************************************************)
\* C12: line_index fails exactly for an offset behind the end of the text,
\* with IndexTooLarge, given the offset and max the length of the text; the
\* offset that is the length resolves to the last line, the one no line follows.
C12_LineIndexRange ==
  call.op = "line_index" =>
    /\ call.res.ok <=> call.given <= Len(source)
    /\ ~call.res.ok =>
         call.res.err = [kind |-> "IndexTooLarge", given |-> call.given, max |-> Len(source)]
    /\ call.given = Len(source) =>
         /\ call.res.ok
         /\ line_range(source, call.res.v).ok
         /\ ~line_range(source, call.res.v + 1).ok

\* line_index was called with the length of a text of two lines plus one.
C12_Witness ==
  /\ call.op = "line_index"
  /\ source = <<97, 10, 97>>
  /\ call.given = Len(source) + 1
  /\ call.res = Err([kind |-> "IndexTooLarge", given |-> 4, max |-> 3])

\* C13: for an offset before the end of the text line_index returns a line
\* whose line_range succeeds and holds the offset; the range of the first
\* line starts at 0, the range of a line ends where the next line's starts,
\* and the range of the last line ends at the end of the text.
C13_LineHoldsOffset ==
  /\ (call.op = "line_index" /\ call.given < Len(source)) =>
       /\ call.res.ok
       /\ line_range(source, call.res.v).ok
       /\ line_range(source, call.res.v).v[1] <= call.given
       /\ call.given < line_range(source, call.res.v).v[2]
  /\ (call.op = "line_range" /\ call.res.ok) =>
       /\ call.given = 0 => call.res.v[1] = 0
       /\ call.res.v[1] <= call.res.v[2]
       /\ IF line_range(source, call.given + 1).ok
          THEN line_range(source, call.given + 1).v[1] = call.res.v[2]
          ELSE call.res.v[2] = Len(source)
  /\ (call.op = "line_range" /\ ~call.res.ok) =>
       /\ call.given > 0
       /\ line_range(source, call.given - 1).ok => line_range(source, call.given - 1).v[2] = Len(source)

\* line_index was called with an offset in the second of two lines, the
\* first ended by a carriage return and a line feed.
C13_Witness ==
  /\ call.op = "line_index"
  /\ source = <<13, 10, 97>>
  /\ call.given = 2
  /\ call.res = Ok(1)
  /\ line_range(source, 1) = Ok(<<2, 3>>)

\* The characters of a text between two character boundaries, decoded one by
\* one from the first byte of each.
CharLen(b) == IF b < 128 THEN 1 ELSE IF b < 224 THEN 2 ELSE IF b < 240 THEN 3 ELSE 4

RECURSIVE CountChars(_, _, _)
CountChars(text, lo, hi) ==
  IF lo >= hi THEN 0 ELSE 1 + CountChars(text, lo + CharLen(text[lo + 1]), hi)

\* C14: the column that column_number returns is the number of characters,
\* not of bytes, between the start of the offset's line and the offset: for
\* "cafe" with a two-byte e-acute the offset 5 is column 4.
C14_ColumnCountsChars ==
  call.op = "column_number" =>
    /\ call.res.ok =>
         call.res.v =
           CountChars(source, line_range(source, line_index(source, call.given).v).v[1],
                      call.given)
    /\ (source = CafeText /\ call.given = 5) => call.res = Ok(4)

\* column_number was called with the offset behind the e-acute of "cafe".
C14_Witness ==
  /\ call.op = "column_number"
  /\ source = CafeText
  /\ call.given = 5
  /\ call.res = Ok(4)

\* C15: column_number fails exactly for an offset behind the end of the text
\* or inside a character: behind the end with IndexTooLarge, given the offset
\* and max the length, and else with InvalidCharBoundary, given the offset.
C15_ColumnErrors ==
  call.op = "column_number" =>
    LET inRange == call.given <= Len(source)
        onBoundary == \/ call.given = 0
                      \/ call.given = Len(source)
                      \/ call.given < Len(source) /\ source[call.given + 1] \notin 128..191
    IN /\ call.res.ok <=> (inRange /\ onBoundary)
       /\ (~call.res.ok /\ inRange) =>
            call.res.err = [kind |-> "InvalidCharBoundary", given |-> call.given]
       /\ (~call.res.ok /\ ~inRange) =>
            call.res.err = [kind |-> "IndexTooLarge", given |-> call.given, max |-> Len(source)]

\* column_number has failed for the offset inside the e-acute of a text.
C15_Witness ==
  /\ call.op = "column_number"
  /\ source = <<97, 195, 169>>
  /\ call.given = 2
  /\ call.res = Err([kind |-> "InvalidCharBoundary", given |-> 2])

(***************************************************************************)
(* Further claims about FontSlot::get and export_pdf.                       *)
(***************************************************************************)
\* C16: a step of a get, whichever thread takes it and whatever the other
\* threads are in the middle of, leaves the book, the number and order of the
\* slots and every slot's path and index as they are, and changes the cell of
\* no slot but the one the get was called on.
C16_GetFrame ==
  [][(tpc' # tpc) =>
       /\ book' = book
       /\ Len(fonts') = Len(fonts)
       /\ \A j \in Slots :
            /\ fonts'[j].path = fonts[j].path
            /\ fonts'[j].index = fonts[j].index
            /\ fonts'[j].font # fonts[j].font =>
                 \E t \in Threads : tpc'[t] # tpc[t] /\ tslot[t] = j]_vars

\* A get has completed the cell of one slot while another thread runs the
\* closure of the other slot of the same file.
C16_Witness ==
  \E i, j \in Slots :
    /\ i # j
    /\ fonts[i].path = fonts[j].path
    /\ fonts[i].font.once = "complete"
    /\ fonts[j].font.once = "running"
    /\ \E t \in Threads : tpc[t] = "closure" /\ tslot[t] = j

\* The compilation has run to completion, and export_pdf has returned.
Compiled == branch \in {"compile_ok", "compile_err"}

\* The main block of each of the first n warnings has been written, in order.
WarningsWritten(n) ==
  /\ Len(MainMessages) >= n
  /\ \A i \in 1..n : MainMessages[i] = warnings[i].message

\* C17 as claimed: when export_pdf returns after a compilation, it has passed
\* the warnings to print_diagnostics and every one of them has been written.
C17_WarningsEmitted ==
  (Compiled /\ epc = "returned" /\ warnings # <<>>) =>
    /\ printed # "none"
    /\ WarningsWritten(Len(warnings))

\* C17 as amended: after a compilation print_diagnostics is called unless the
\* compilation returned Ok and the output could not be written; in that case
\* nothing is printed.  What print_diagnostics writes starts with the warnings
\* in order, and it has written all of them when it returns Ok.
C17_WarningsEmittedUnlessFailed ==
  /\ (Compiled /\ epc = "returned") =>
       (printed = "none" <=> (branch = "compile_ok" /\ writes = 0))
  /\ (branch = "compile_ok" /\ writes = 0) => out = <<>>
  /\ Compiled =>
       /\ WarningsWritten(IF Len(MainMessages) < Len(warnings)
                          THEN Len(MainMessages) ELSE Len(warnings))
       /\ printed = "Ok" => WarningsWritten(Len(warnings))

\* export_pdf has returned Ok after writing the output and two warnings.
C17_Witness ==
  /\ branch = "compile_ok"
  /\ epc = "returned"
  /\ writes = 1
  /\ printed = "Ok"
  /\ Len(warnings) = 2
  /\ WarningsWritten(2)

\* C18: the output is written at most once, and only by the step that
\* follows a compilation that returned Ok; on the branch of an unreadable
\* main file the compilation is never reached and nothing is written, and on
\* the branch of a failed compilation nothing is written.
C18_WriteOnlyAfterOk ==
  /\ [](writes <= 1)
  /\ [](writes = 1 => branch = "compile_ok")
  /\ [](branch \in {"main_failed", "compile_err"} => writes = 0)
  /\ [][branch = "main_failed" => epc' \notin {"compile", "write"}]_vars
  /\ [][writes' # writes => (branch = "compile_ok" /\ epc = "write" /\ writes = 0)]_vars

\* export_pdf has returned after a compilation that returned Ok and one write.
C18_Witness ==
  /\ branch = "compile_ok"
  /\ epc = "returned"
  /\ writes = 1

\* C19: on the branch of a compilation that returned Ok the failure flag is
\* never set, whatever is printed; the steps of export_pdf that set the flag
\* are those that enter the branch of an unreadable main file or of a failed
\* compilation.
C19_OkLeavesFlag ==
  /\ [](branch = "compile_ok" => ~failed)
  /\ [][failed' # failed => branch' \in {"main_failed", "compile_err"} /\ branch = "none"]_vars

\* export_pdf has returned Ok after printing two warnings, the flag not set.
C19_Witness ==
  /\ branch = "compile_ok"
  /\ epc = "returned"
  /\ result = "Ok"
  /\ Len(warnings) = 2
  /\ Len(MainBlocks) = 2
  /\ ~failed

====
